---- MODULE Spec2Model ----
(***************************************************************************)
(* A model of src/media.py: a chat bot that takes a media URL, detects its *)
(* platform, asks for a format, downloads through a rehosting service with *)
(* a yt-dlp fallback, checks the size, sends the file and removes it.      *)
(*                                                                         *)
(* Handlers run one at a time (Application.builder().build() keeps the     *)
(* default of sequential update processing, and the network calls inside   *)
(* the handlers are blocking), so each handler is one action.  The outcome *)
(* of every call to a collaborator (chat API, HTTP, file system, yt-dlp)   *)
(* is an input of the action.                                              *)
(*                                                                         *)
(* Text is modelled at the level of chunks: a URL is a sequence of chunks  *)
(* and a pattern occurs in it when one of its chunks, lower-cased, is one  *)
(* of the pattern's literals.                                              *)
(***************************************************************************)
EXTENDS Integers, Sequences, FiniteSets, TLC

VARIABLES
    user_data,  \* context.user_data: url, platform, format_message_id
    messages,   \* the format prompts sent to the chat, indexed by message id
    files,      \* the temporary directory: path -> size of the file there
    run,        \* what the last handler invocation did (its calls, in order)
    hist        \* history: counters, paths each request used, consumed data

vars == <<user_data, messages, files, run, hist>>

\* ------------------------------------------------------------------ bounds
MaxPrompts == 1
MaxPresses == 1
SessionPrompts == 2
SessionPresses == 2
MaxUrlLen == 2
MaxLinks == 2
MaxFrames == 3

\* --------------------------------------------------------------- constants
None == "none"
NoUrl == <<>>

MAX_FILE_SIZE == 50 * 1024 * 1024

PlatformOrder == <<"youtube", "tiktok", "facebook", "instagram">>

PLATFORMS ==
    [youtube   |-> [name |-> "YouTube",   regex |-> {"youtube.com", "youtu.be"}],
     tiktok    |-> [name |-> "TikTok",    regex |-> {"tiktok.com"}],
     facebook  |-> [name |-> "Facebook",  regex |-> {"facebook.com"}],
     instagram |-> [name |-> "Instagram", regex |-> {"instagram.com"}]]

\* The last six characters of the token the application is built with.
BotTokenSuffix == "8QYy_o"

\* ------------------------------------------------------------------- text
Chunks ==
    {"youtube.com", "YouTube.COM", "youtu.be", "youtubeXcom", "tiktok.com",
     "TikTok.Com", "facebook.com", "instagram.com", "example.com"}

LowerIdentity(c) == c

\* str.lower() / re.IGNORECASE on one chunk.
Lower(c) ==
    CASE c = "YouTube.COM" -> "youtube.com"
      [] c = "youtubeXcom" -> "youtubexcom"
      [] c = "TikTok.Com"  -> "tiktok.com"
      [] c = "Download"    -> "download"
      [] c = "Video"       -> "video"
      [] OTHER             -> c

\* re.search(regex, text, re.IGNORECASE): the pattern occurs anywhere.
re_search(regex, text) == \E i \in DOMAIN text : Lower(text[i]) \in regex

RECURSIVE detect_from(_, _)
detect_from(i, url) ==
    IF i > Len(PlatformOrder) THEN None
    ELSE IF re_search(PLATFORMS[PlatformOrder[i]].regex, url)
         THEN PlatformOrder[i]
         ELSE detect_from(i + 1, url)

detect_platform(url) == detect_from(1, url)

RECURSIVE SeqsUpTo(_, _)
SeqsUpTo(S, n) ==
    IF n = 0 THEN {<<>>}
    ELSE LET shorter == SeqsUpTo(S, n - 1)
         IN shorter \cup {Append(s, x) : s \in shorter, x \in S}

\* The URLs detect_platform is checked on.
Urls == SeqsUpTo(Chunks, MaxUrlLen)

\* The URLs users send in the handler specification.
UserUrls ==
    {<<"youtu.be">>, <<"TikTok.Com">>, <<"example.com">>}

\* ---------------------------------------------------------------- records
Formats == {"audio", "video"}

\* Outcomes of requests.get with raise_for_status: a response, a timeout, or
\* any other requests.RequestException (connection error, HTTP error status).
NetOutcomes == {"ok", "timeout", "neterr"}

\* Content-Type headers of the media response ("" when there is none).
ContentTypes == {"", "audio/mpeg", "video/mp4"}

\* Sizes a completely written file can have, around the ceiling.
Sizes == {MAX_FILE_SIZE - 1, MAX_FILE_SIZE, MAX_FILE_SIZE + 1}

Ev(op, arg, res) == [op |-> op, arg |-> arg, res |-> res]

EmptyRun ==
    [kind |-> None, url |-> NoUrl, platform |-> None, format |-> None,
     pressed |-> 0, reused |-> FALSE, log |-> <<>>, outcome |-> None,
     wrote |-> {}, shared |-> {}, file_type |-> None, file_size |-> 0]

\* The local state of a button_callback invocation in flight.
NewContext ==
    [log |-> <<>>, files |-> files, messages |-> messages, wrote |-> {},
     used |-> {}, file_type |-> None, file_size |-> 0]

Logged(c, op, arg, res) == [c EXCEPT !.log = Append(@, Ev(op, arg, res))]

Count(log, ops) == Cardinality({i \in DOMAIN log : log[i].op \in ops})

\* Path(tempfile.gettempdir()) / f"{stem}_{context.bot.token[-6:]}{ext}"
TempPath(stem, ext) == [stem |-> stem, token |-> BotTokenSuffix, ext |-> ext]

\* ---------------------------------------------------------- collaborators
\* A deleted message cannot be edited or deleted again; a call on a message
\* that exists succeeds or fails (network, rate limit).
MessageOutcomes(c, id) ==
    IF c.messages[id].alive THEN {"ok", "fail"} ELSE {"fail"}

\* query.edit_message_text(text): replaces the text, drops the keyboard.
edit_message_text(c, id, text, res) ==
    [Logged(c, "edit_message_text", text, res) EXCEPT
        !.messages = IF res = "ok"
                     THEN [@ EXCEPT ![id].keyboard = FALSE]
                     ELSE @]

\* context.bot.delete_message(message_id)
delete_message(c, id, res) ==
    [Logged(c, "delete_message", "prompt", res) EXCEPT
        !.messages = IF res = "ok" THEN [@ EXCEPT ![id].alive = FALSE] ELSE @]

\* open(file_path, "wb") followed by the writes: the file is replaced.
write_file(c, path, size) ==
    [c EXCEPT
        !.files = [p \in DOMAIN @ \cup {path} |-> IF p = path THEN size ELSE @[p]],
        !.wrote = @ \cup {path},
        !.used = @ \cup {path}]

UnlinkOutcomes(c, path) ==
    IF path \in DOMAIN c.files THEN {"ok", "fail"} ELSE {"fail"}

\* file_path.unlink()
unlink(c, path, res) ==
    [Logged(c, "unlink", path.stem, res) EXCEPT
        !.files = IF res = "ok" THEN [p \in DOMAIN @ \ {path} |-> @[p]] ELSE @,
        !.used = @ \cup {path}]

\* ------------------------------------------------------------ link search
\* word in text.lower()
Contains(word, text) == \E i \in DOMAIN text : Lower(text[i]) = word

\* The condition under which a link of the service page is taken.
LinkQualifies(platform, format_choice, link) ==
    IF platform = "youtube"
    THEN Contains("download", link.href) /\ Contains(format_choice, link.text)
    ELSE Contains("download", link.href) \/ Contains("video", link.href)

find_link_last(i, platform, format_choice, page) ==
    LET hits == {j \in i..Len(page) : LinkQualifies(platform, format_choice, page[j])}
    IN IF hits = {} THEN 0 ELSE CHOOSE j \in hits : \A k \in hits : k <= j

\* The index of the link whose href becomes download_url, 0 when none does.
RECURSIVE find_link_from(_, _, _, _)
find_link_from(i, platform, format_choice, page) ==
    IF i > Len(page) THEN 0
    ELSE IF LinkQualifies(platform, format_choice, page[i]) THEN i
         ELSE find_link_from(i + 1, platform, format_choice, page)

find_download_url(platform, format_choice, page) ==
    find_link_from(1, platform, format_choice, page)

\* The service pages of the handler specification.
UserPages ==
    {<<>>,
     <<[href |-> <<"Download">>, text |-> <<"Video">>]>>,
     <<[href |-> <<"x">>, text |-> <<"x">>],
       [href |-> <<"video">>, text |-> <<"audio">>]>>}

\* ------------------------------------------------- button_callback, stages
\* The handler returns or raises: its effects become the new state.
Terminate(q, c, outcome) ==
    /\ run' = [EmptyRun EXCEPT
                  !.kind = "button", !.url = q.url, !.platform = q.platform,
                  !.format = q.format, !.pressed = q.pressed,
                  !.reused = (hist.origin \in hist.consumed),
                  !.shared = c.used \cap hist.used,
                  !.log = c.log, !.outcome = outcome, !.wrote = c.wrote,
                  !.file_type = c.file_type, !.file_size = c.file_size]
    /\ files' = c.files
    /\ messages' = c.messages
    /\ hist' = [hist EXCEPT
                   !.nreq = @ + 1,
                   !.used = @ \cup c.used,
                   !.consumed =
                       IF Count(c.log, {"download_via_service"}) > 0
                       THEN @ \cup {hist.origin} ELSE @]
    /\ UNCHANGED user_data

CleanupPropagating(q, c, path, outcome) ==
    \E u \in UnlinkOutcomes(c, path) :
        Terminate(q, unlink(c, path, u), IF u = "ok" THEN outcome ELSE "Raised")

\* Lines 205-209 (finally) and 181-185: unlink, any error swallowed.
Cleanup(q, c, path, outcome) ==
    \E u \in UnlinkOutcomes(c, path) :
        Terminate(q, unlink(c, path, u), outcome)

DeliveryOpVideoOnly(file_type) == "send_video"

\* Lines 189-200: the call that hands the file over.
DeliveryOp(file_type) ==
    IF file_type = "audio" THEN "send_audio" ELSE "send_video"

\* Lines 202-204: the except branch of the delivery.
SendFailed(q, c, path) ==
    \E e \in MessageOutcomes(c, q.pressed) :
        Cleanup(q, edit_message_text(c, q.pressed, "send_failed", e), path,
                IF e = "ok" THEN "DeliveryFailed" ELSE "Raised")

\* Lines 187-209: send the file, confirm, clean up.
SendFile(q, c, path) ==
    \E s \in {"ok", "fail"} :
        LET c1 == [Logged(c, DeliveryOp(c.file_type), path.stem, s)
                      EXCEPT !.used = @ \cup {path}]
        IN IF s = "ok"
           THEN \E e \in MessageOutcomes(c1, q.pressed) :
                    LET c2 == edit_message_text(c1, q.pressed, "complete", e)
                    IN IF e = "ok" THEN Cleanup(q, c2, path, "Done")
                       ELSE SendFailed(q, c2, path)
           ELSE SendFailed(q, c1, path)

\* Lines 174-185: measure the file, refuse it above the ceiling.
CheckSize(q, c, path) ==
    LET c1 == [Logged(c, "stat", path.stem, "ok") EXCEPT
                  !.file_size = c.files[path], !.used = @ \cup {path}]
    IN IF c1.file_size > MAX_FILE_SIZE
       THEN \E e \in MessageOutcomes(c1, q.pressed) :
                LET c2 == edit_message_text(c1, q.pressed, "too_large", e)
                IN IF e = "ok" THEN Cleanup(q, c2, path, "TooLarge")
                   ELSE Terminate(q, c2, "Raised")
       ELSE SendFile(q, c1, path)

\* Lines 280-324 and their caller's lines 164-172: the yt-dlp fallback.  The
\* library is a black box that fails, or writes one file of its own naming.
download_via_ytdlp(q, c) ==
    \E y \in {"ok", "fail"} :
        LET c1 == Logged(c, "download_via_ytdlp", q.format, y)
        IN IF y = "ok"
           THEN \E size \in Sizes :
                    LET path == TempPath("ytdlp",
                                    IF q.format = "audio" THEN "mp3" ELSE "mp4")
                        c2 == [write_file(c1, path, size) EXCEPT
                                  !.file_type = IF q.format = "audio"
                                                THEN "audio" ELSE "video"]
                    IN CheckSize(q, c2, path)
           ELSE \E e \in MessageOutcomes(c1, q.pressed) :
                    Terminate(q, edit_message_text(c1, q.pressed, "dl_failed", e),
                              IF e = "ok" THEN "DownloadFailed" ELSE "Raised")

RequestExceptionNoTimeout(outcome) == outcome \in {"neterr"}

\* except requests.RequestException (lines 229, 258): every failure of
\* requests.get and raise_for_status, a timeout included.
RequestException(outcome) == outcome \in {"timeout", "neterr"}

\* The words of a Content-Type header.
WordsOf(content_type) ==
    CASE content_type = "audio/mpeg" -> {"audio", "mpeg"}
      [] content_type = "video/mp4"  -> {"video", "mp4"}
      [] OTHER                       -> {}

\* Lines 261-268: file_type (ext is ".mp3" for audio, ".mp4" for video).
MediaKind(content_type, format_choice) ==
    IF "audio" \in WordsOf(content_type) \/ format_choice = "audio"
    THEN "audio" ELSE "video"

\* Lines 263 and 266: the extension that goes with file_type.
Extension(file_type) == IF file_type = "audio" THEN ".mp3" ELSE ".mp4"

\* A failed requests.get: DownloadError when it is caught, else it escapes.
ServiceFailed(q, c, outcome) ==
    IF RequestException(outcome) THEN download_via_ytdlp(q, c)
    ELSE Terminate(q, c, "Raised")

\* Lines 270-278: stream the media into the temporary file.
SaveToFile(q, c, content_type) ==
    LET kind == MediaKind(content_type, q.format)
        path == TempPath("download", Extension(kind))
        c1 == [c EXCEPT !.file_type = kind]
    IN \E w \in {"ok", "open_fail", "chunk_fail"} :
        CASE w = "open_fail" ->
                Terminate(q, Logged(c1, "write", path.ext, w), "Raised")
          [] w = "chunk_fail" ->
                Terminate(q, Logged(write_file(c1, path, 0), "write", path.ext, w),
                          "Raised")
          [] OTHER ->
                \E size \in Sizes :
                    CheckSize(q, Logged(write_file(c1, path, size), "write",
                                        path.ext, w), path)

\* Lines 211-278 and their caller's lines 157-163: the service extraction.
download_via_service(q, c) ==
    \E pg \in NetOutcomes :
        LET c1 == Logged(Logged(c, "download_via_service", q.platform, "call"),
                         "page_fetch", q.platform, pg)
        IN IF pg # "ok" THEN ServiceFailed(q, c1, pg)
           ELSE \E page \in UserPages :
                IF find_download_url(q.platform, q.format, page) = 0
                THEN download_via_ytdlp(q, Logged(c1, "find_link", "", "none"))
                ELSE \E d \in NetOutcomes :
                        LET c2 == Logged(Logged(c1, "find_link", "", "found"),
                                         "direct_fetch", "", d)
                        IN IF d # "ok" THEN ServiceFailed(q, c2, d)
                           ELSE \E ct \in ContentTypes : SaveToFile(q, c2, ct)

StartRequestUnchecked(q, c) ==
    \E e \in MessageOutcomes(c, q.pressed) :
        LET c1 == edit_message_text(c, q.pressed, "processing", e)
        IN IF e = "ok" THEN download_via_service(q, c1)
           ELSE Terminate(q, c1, "Raised")

\* Lines 144-155: look the request up in the session, show the status.
StartRequest(q, c) ==
    \E e \in MessageOutcomes(c, q.pressed) :
        IF q.url = NoUrl \/ q.platform = None
        THEN Terminate(q, edit_message_text(c, q.pressed, "error_nourl", e),
                       IF e = "ok" THEN "NoUrl" ELSE "Raised")
        ELSE LET c1 == edit_message_text(c, q.pressed, "processing", e)
             IN IF e = "ok" THEN download_via_service(q, c1)
                ELSE Terminate(q, c1, "Raised")

\* ---------------------------------------------------------------- handlers
\* Lines 128-209: a button of a prompt is pressed.  (When query.answer()
\* raises, the handler ends before it has done anything: not a step.)
button_callback ==
    \E m \in DOMAIN messages, fmt \in Formats :
        /\ messages[m].alive
        /\ messages[m].keyboard
        /\ LET q == [pressed |-> m, format |-> fmt, url |-> user_data.url,
                     platform |-> user_data.platform]
               c == Logged(NewContext, "answer", "", "ok")
               fid == user_data.format_message_id
           IN IF fid # 0
              THEN \E d \in MessageOutcomes(c, fid) :
                       StartRequest(q, delete_message(c, fid, d))
              ELSE StartRequest(q, c)

RejectedAfterStore(url, r) ==
    /\ run' = [EmptyRun EXCEPT
                  !.kind = "url", !.url = url,
                  !.log = <<Ev("reply_text", "unsupported", r)>>,
                  !.outcome = IF r = "ok" THEN "UnsupportedPlatform" ELSE "Raised"]
    /\ user_data' = [user_data EXCEPT !.url = url, !.platform = None]
    /\ UNCHANGED <<messages, files, hist>>

\* Lines 99-103: no platform matches, reject and return.
Rejected(url, r) ==
    /\ run' = [EmptyRun EXCEPT
                  !.kind = "url", !.url = url,
                  !.log = <<Ev("reply_text", "unsupported", r)>>,
                  !.outcome = IF r = "ok" THEN "UnsupportedPlatform" ELSE "Raised"]
    /\ UNCHANGED <<user_data, messages, files, hist>>

\* Lines 105-126: store the request in the session, send the prompt.
Prompted(url, platform, r) ==
    /\ user_data' = [url |-> url, platform |-> platform,
                     format_message_id |->
                         IF r = "ok" THEN Len(messages) + 1
                         ELSE user_data.format_message_id]
    /\ messages' = IF r = "ok"
                   THEN Append(messages,
                               [alive |-> TRUE, keyboard |-> TRUE,
                                url |-> url, platform |-> platform,
                                origin |-> hist.nurl + 1])
                   ELSE messages
    /\ hist' = [hist EXCEPT !.nurl = @ + 1, !.origin = hist.nurl + 1]
    /\ run' = [EmptyRun EXCEPT
                  !.kind = "url", !.url = url, !.platform = platform,
                  !.log = <<Ev("reply_text", "prompt", r)>>,
                  !.outcome = IF r = "ok" THEN "Prompted" ELSE "Raised"]
    /\ UNCHANGED files

\* Lines 94-126: a text message arrives.
handle_url(maxPrompts) ==
    \E url \in UserUrls, r \in {"ok", "fail"} :
        LET platform == detect_platform(url)
        IN IF platform = None THEN Rejected(url, r)
           ELSE hist.nurl < maxPrompts /\ Prompted(url, platform, r)

\* Lines 326-340: the process is started again; the session is in memory only.
main ==
    /\ user_data' = [url |-> NoUrl, platform |-> None, format_message_id |-> 0]
    /\ hist' = [hist EXCEPT !.origin = 0]
    /\ run' = [EmptyRun EXCEPT !.kind = "main"]
    /\ UNCHANGED <<messages, files>>

\* ----------------------------------------------------------- specifications
Init ==
    /\ user_data = [url |-> NoUrl, platform |-> None, format_message_id |-> 0]
    /\ messages = <<>>
    /\ files = <<>>
    /\ run = [EmptyRun EXCEPT !.kind = "main"]
    /\ hist = [nurl |-> 0, nreq |-> 0, origin |-> 0, consumed |-> {}, used |-> {}]

\* One prompt and one press: every way a single request can go.
Next ==
    \/ handle_url(MaxPrompts)
    \/ hist.nreq < MaxPresses /\ button_callback
    \/ main

Spec == Init /\ [][Next]_vars

\* Several prompts and presses of one user: requests following each other.
NextSession ==
    \/ handle_url(SessionPrompts)
    \/ hist.nreq < SessionPresses /\ button_callback
    \/ main

SpecSession == Init /\ [][NextSession]_vars

\* detect_platform alone, on every URL of up to MaxUrlLen chunks.
InitDetect ==
    /\ user_data = [url |-> NoUrl, platform |-> None, format_message_id |-> 0]
    /\ messages = <<>>
    /\ files = <<>>
    /\ \E u \in Urls : run = [EmptyRun EXCEPT !.kind = "input", !.url = u]
    /\ hist = [nurl |-> 0, nreq |-> 0, origin |-> 0, consumed |-> {}, used |-> {}]

detect_call ==
    /\ run.kind = "input"
    /\ run' = [run EXCEPT !.kind = "detect", !.platform = detect_platform(run.url)]
    /\ UNCHANGED <<user_data, messages, files, hist>>

NextDetect == detect_call

SpecDetect == InitDetect /\ [][NextDetect]_vars

\* The hyperlinks the service pages of the extraction specification are
\* built from.
Links ==
    {[href |-> <<"Download">>, text |-> <<"Video">>],
     [href |-> <<"hd", "download">>, text |-> <<"audio">>],
     [href |-> <<"video">>, text |-> <<"watch">>],
     [href |-> <<"mp4">>, text |-> <<"video">>],
     [href |-> <<"about">>, text |-> <<"audio">>]}

Pages == SeqsUpTo(Links, MaxLinks)

\* The link search and the naming of the artifact alone (lines 234-272), on
\* every page of up to MaxLinks links, every platform and format choice.
InitExtract ==
    /\ user_data = [url |-> NoUrl, platform |-> None, format_message_id |-> 0]
    /\ messages = <<>>
    /\ files = <<>>
    /\ \E i \in DOMAIN PlatformOrder, f \in Formats, page \in Pages :
          run = [kind |-> "page", platform |-> PlatformOrder[i], format |-> f,
                 page |-> page, link |-> 0, content_type |-> None,
                 file_type |-> None, path |-> None, outcome |-> None]
    /\ hist = [nurl |-> 0, nreq |-> 0, origin |-> 0, consumed |-> {}, used |-> {}]

\* Lines 234-250: no link taken, DownloadError.
no_link_found ==
    /\ run.kind = "page"
    /\ find_download_url(run.platform, run.format, run.page) = 0
    /\ run' = [run EXCEPT !.kind = "extract", !.outcome = "DownloadError"]
    /\ UNCHANGED <<user_data, messages, files, hist>>

\* Lines 234-247 and 261-272: the link taken, then the kind and the path of
\* the artifact from the Content-Type header of the media response.
name_artifact ==
    /\ run.kind = "page"
    /\ find_download_url(run.platform, run.format, run.page) > 0
    /\ \E content_type \in ContentTypes :
          LET file_type == MediaKind(content_type, run.format)
          IN run' = [run EXCEPT
                       !.kind = "extract",
                       !.link = find_download_url(run.platform, run.format, run.page),
                       !.content_type = content_type,
                       !.file_type = file_type,
                       !.path = TempPath("download", Extension(file_type)),
                       !.outcome = "Saved"]
    /\ UNCHANGED <<user_data, messages, files, hist>>

NextExtract == no_link_found \/ name_artifact

SpecExtract == InitExtract /\ [][NextExtract]_vars

\* One request with the progress reporter of the second revision running
\* beside button_callback.  The reporter is not among the sources: it is
\* written here from sections 4.4 and 5 of the specification (a cooperative
\* check-before-edit loop; the messaging double records an edit when it is
\* issued).  The status edits of the handler are those of lines 152-204.
\* The request starts where the status reads "Processing" (line 153) and the
\* reporter has just been started.
InitReporter ==
    /\ user_data = [url |-> NoUrl, platform |-> None, format_message_id |-> 0]
    /\ messages = <<>>
    /\ files = <<>>
    /\ run = [kind |-> "progress", pc |-> "extracting", pending |-> None,
              reporter |-> "running", cancel_requested |-> FALSE, frame |-> 0,
              observed_at |-> 0,
              edits |-> <<[by |-> "orchestrator", text |-> "processing"]>>,
              outcome |-> None]
    /\ hist = [nurl |-> 0, nreq |-> 0, origin |-> 0, consumed |-> {}, used |-> {}]

\* The reporter checks for cancellation and, not cancelled, issues the next
\* frame; a failed edit ends the reporter without an error.
reporter_edit ==
    /\ run.kind = "progress"
    /\ run.reporter = "running"
    /\ ~run.cancel_requested
    /\ run.frame < MaxFrames
    /\ \E e \in {"ok", "fail"} :
          run' = [run EXCEPT
                    !.edits = Append(@, [by |-> "reporter", text |-> "frame"]),
                    !.frame = IF e = "ok" THEN @ + 1 ELSE @,
                    !.reporter = IF e = "ok" THEN @ ELSE "failed"]
    /\ UNCHANGED <<user_data, messages, files, hist>>

\* The reporter checks for cancellation, finds it requested and stops.
reporter_observes_cancel ==
    /\ run.kind = "progress"
    /\ run.reporter = "running"
    /\ run.cancel_requested
    /\ run' = [run EXCEPT !.reporter = "cancelled",
                          !.observed_at = Len(run.edits)]
    /\ UNCHANGED <<user_data, messages, files, hist>>

\* Lines 157-199: extraction, size check and delivery reach one of the
\* results that have a status text; the handler requests the cancellation
\* of the reporter before it edits the status itself (section 5).
extraction_ends ==
    /\ run.kind = "progress"
    /\ run.pc = "extracting"
    /\ \E text \in {"dl_failed", "too_large", "complete", "send_failed"} :
          run' = [run EXCEPT !.pc = "terminal", !.pending = text,
                             !.cancel_requested = TRUE]
    /\ UNCHANGED <<user_data, messages, files, hist>>

\* Lines 169-171, 177-179, 201 and 204: the terminal status edit; a failed
\* "complete" edit is followed by the "send_failed" edit of the except
\* branch.
terminal_edit ==
    /\ run.kind = "progress"
    /\ run.pc = "terminal"
    /\ \E e \in {"ok", "fail"} :
          LET first == Append(run.edits, [by |-> "orchestrator", text |-> run.pending])
          IN run' = [run EXCEPT
                       !.pc = "done",
                       !.edits = IF run.pending = "complete" /\ e = "fail"
                                 THEN Append(first, [by |-> "orchestrator",
                                                     text |-> "send_failed"])
                                 ELSE first,
                       !.outcome = IF e = "ok" THEN "Shown" ELSE "Raised"]
    /\ UNCHANGED <<user_data, messages, files, hist>>

\* Lines 175 and 274-276: stat, open or write raise outside every try: the
\* handler ends with no terminal edit.  The reporter is taken to be
\* cancelled on this exit as well.
exception_escapes ==
    /\ run.kind = "progress"
    /\ run.pc = "extracting"
    /\ run' = [run EXCEPT !.pc = "done", !.outcome = "Raised",
                          !.cancel_requested = TRUE]
    /\ UNCHANGED <<user_data, messages, files, hist>>

NextReporter ==
    \/ reporter_edit
    \/ reporter_observes_cancel
    \/ extraction_ends
    \/ terminal_edit
    \/ exception_escapes

SpecReporter == InitReporter /\ [][NextReporter]_vars

\* ------------------------------------------------------------------ claims
\* What the last handler invocation did, read off its record.
Called(op) == Count(run.log, {op})

ReachedExtraction == run.kind = "button" /\ Called("download_via_service") = 1

ServiceSucceeded ==
    \E i \in DOMAIN run.log : run.log[i].op = "write" /\ run.log[i].res = "ok"

Sends == Called("send_audio") + Called("send_video")

TerminalTexts ==
    {"unsupported", "error_nourl", "dl_failed", "too_large", "complete",
     "send_failed"}

\* The terminal messages the invocation issued, and those that were shown.
TerminalIssued ==
    {i \in DOMAIN run.log :
        /\ run.log[i].op \in {"reply_text", "edit_message_text"}
        /\ run.log[i].arg \in TerminalTexts}

TerminalShown == {i \in TerminalIssued : run.log[i].res = "ok"}

\* C1: a request that reaches extraction invokes the fallback exactly once
\* when the service extraction fails in any way, and never when it succeeds.
C1_FallbackContract ==
    ReachedExtraction =>
        Called("download_via_ytdlp") = IF ServiceSucceeded THEN 0 ELSE 1

\* The file system refused a deletion the handler attempted.
UnlinkRefused ==
    \E i \in DOMAIN run.log : run.log[i].op = "unlink" /\ run.log[i].res = "fail"

\* C2: once a request has terminated, whichever way, no file it wrote is left
\* in the temporary directory (read in the claim's favour: a file whose
\* deletion was attempted and refused is not counted).
C2_NoArtifactLeft == ~UnlinkRefused => run.wrote \cap DOMAIN files = {}

\* C3: a measured size above the ceiling ends the request in TooLarge, with no
\* send call and the file gone (unless its deletion was refused); a size up to
\* the ceiling goes on to delivery.
C3_SizeCeiling ==
    (run.kind = "button" /\ Called("stat") = 1) =>
        IF run.file_size > MAX_FILE_SIZE
        THEN /\ run.outcome = "TooLarge"
             /\ Sends = 0
             /\ ~UnlinkRefused => run.wrote \cap DOMAIN files = {}
        ELSE Sends = 1

\* C4: every request ends with exactly one terminal message (the rejection of
\* an unsupported URL, one failure message, or the success confirmation).
C4_OneTerminalMessage ==
    (run.kind = "button" \/ (run.kind = "url" /\ run.platform = None)) =>
        Cardinality(TerminalIssued) = 1

\* C5: no request operates on a file path another request operates on.
C5_DistinctPaths == run.shared = {}

\* C9: the URL and platform a button press extracts are the ones detected for
\* the prompt whose button was pressed, and not those of a request that has
\* already reached a terminal outcome.
C9_RequestBinding ==
    ReachedExtraction =>
        /\ run.url = messages[run.pressed].url
        /\ run.platform = messages[run.pressed].platform
        /\ ~run.reused

\* The chunks in which a platform's pattern occurs, letter case ignored.
Domains ==
    [youtube   |-> {"youtube.com", "YouTube.COM", "youtu.be"},
     tiktok    |-> {"tiktok.com", "TikTok.Com"},
     facebook  |-> {"facebook.com"},
     instagram |-> {"instagram.com"}]

Occurs(p, url) == \E i \in DOMAIN url : url[i] \in Domains[p]

\* The positions in the table of the platforms whose pattern occurs in url.
Hits(url) == {i \in DOMAIN PlatformOrder : Occurs(PlatformOrder[i], url)}

\* C6: detect_platform returns the first platform in table order whose
\* pattern occurs anywhere in the URL, ignoring case, and none exactly when
\* no pattern occurs.
C6_FirstMatch ==
    run.kind = "detect" =>
        /\ run.platform = None <=> Hits(run.url) = {}
        /\ Hits(run.url) # {} =>
              \E i \in Hits(run.url) :
                  /\ run.platform = PlatformOrder[i]
                  /\ \A j \in Hits(run.url) : i <= j

\* A URL with the patterns of two platforms, the later table entry first and
\* the earlier one in capitals, detected as the earlier entry.
C6_Witness ==
    /\ run.kind = "detect"
    /\ run.url = <<"TikTok.Com", "YouTube.COM">>
    /\ run.platform = "youtube"

\* C7: a message whose URL matches no platform gets the rejection and nothing
\* else: no other call is made, no file is written, the session, the prompts
\* and the temporary directory stay as they were.
C7_RejectionOnly ==
    [][(run'.kind = "url" /\ Hits(run'.url) = {}) =>
          /\ user_data' = user_data
          /\ messages' = messages
          /\ files' = files
          /\ hist' = hist
          /\ run'.log = <<Ev("reply_text", "unsupported", run'.log[1].res)>>
          /\ run'.wrote = {}]_vars

\* An unsupported URL is rejected while a session and a prompt exist.
C7_Witness ==
    /\ run.kind = "url"
    /\ run.outcome = "UnsupportedPlatform"
    /\ user_data.url # NoUrl
    /\ messages # <<>>

NetworkCalls == {"page_fetch", "direct_fetch"}

\* C8: one request attempts the service extraction exactly once and the
\* fallback at most once, makes each network call at most once, and a failed
\* network call, a timeout like any other failure, is followed at once by the
\* fallback.
C8_SingleAttempts ==
    run.kind = "button" =>
        /\ Called("download_via_service") <= 1
        /\ (\E i \in DOMAIN run.log : run.log[i] = Ev("edit_message_text", "processing", "ok"))
              => Called("download_via_service") = 1
        /\ Called("download_via_ytdlp") <= 1
        /\ \A op \in NetworkCalls \cup {"write"} : Called(op) <= 1
        /\ \A i \in DOMAIN run.log :
              (run.log[i].op \in NetworkCalls /\ run.log[i].res # "ok") =>
                  /\ i < Len(run.log)
                  /\ run.log[i + 1].op = "download_via_ytdlp"

\* The media request timed out and the fallback ran, once.
C8_Witness ==
    /\ run.kind = "button"
    /\ \E i \in DOMAIN run.log : run.log[i] = Ev("direct_fetch", "", "timeout")
    /\ Called("download_via_ytdlp") = 1
    /\ Called("download_via_service") = 1

FailedSends ==
    {i \in DOMAIN run.log :
        run.log[i].op \in {"send_audio", "send_video"} /\ run.log[i].res = "fail"}

LastServiceCall ==
    CHOOSE i \in DOMAIN run.log :
        /\ run.log[i].op \in {"page_fetch", "find_link", "direct_fetch", "write"}
        /\ \A j \in DOMAIN run.log :
              run.log[j].op \in {"page_fetch", "find_link", "direct_fetch", "write"}
                  => j <= i

\* C12: a failed service extraction does not surface: the call after it is
\* the fallback extraction, with no message or status edit in between, and
\* the request does not end there.
C12_ServiceFailureHidden ==
    (ReachedExtraction /\ ~ServiceSucceeded) =>
        /\ LastServiceCall < Len(run.log)
        /\ run.log[LastServiceCall + 1].op = "download_via_ytdlp"

\* The outcome that goes with a terminal status text that was shown.
OutcomeOf(text) ==
    CASE text = "too_large"   -> "TooLarge"
      [] text = "complete"    -> "Done"
      [] text = "send_failed" -> "DeliveryFailed"
      [] OTHER                -> None

\* C15: a deletion of the artifact is the last call of the handler, whether
\* it succeeds or not: no message follows it, and when the terminal text
\* before it was shown the request ends in the outcome of that text, not in
\* an error.
C15_UnlinkSwallowed ==
    run.kind = "button" =>
        \A i \in DOMAIN run.log :
            run.log[i].op = "unlink" =>
                /\ i = Len(run.log)
                /\ run.log[i - 1].op = "edit_message_text"
                /\ run.log[i - 1].res = "ok" =>
                      run.outcome = OutcomeOf(run.log[i - 1].arg)

\* A refused deletion on the oversize path: the request still ends TooLarge.
C15_Witness ==
    /\ run.kind = "button"
    /\ UnlinkRefused
    /\ run.outcome = "TooLarge"
    /\ run.wrote \cap DOMAIN files # {}

\* C16: no status edit is issued on a message the handler has deleted.
C16_StatusEditable ==
    (run.kind = "button" /\ Called("edit_message_text") > 0) =>
        messages[run.pressed].alive

\* C17: the success confirmation follows a delivery call that succeeded, and
\* a request whose delivery call succeeded never shows the delivery-failure
\* message.
C17_SuccessAfterDelivery ==
    run.kind = "button" =>
        /\ \A i \in DOMAIN run.log :
              (run.log[i].op = "edit_message_text" /\ run.log[i].arg = "complete")
                  => /\ run.log[i - 1].op \in {"send_audio", "send_video"}
                     /\ run.log[i - 1].res = "ok"
        /\ (Sends > 0 /\ FailedSends = {}) =>
              \A i \in TerminalShown : run.log[i].arg # "send_failed"

\* C18: a press that finds no URL or no platform in the session issues the
\* error edit and nothing else: no extraction, no delivery, no file touched.
C18_NoSessionError ==
    [][(run'.kind = "button" /\ (run'.url = NoUrl \/ run'.platform = None)) =>
          /\ Len(run'.log) = 2
          /\ run'.log[1].op = "answer"
          /\ run'.log[2].op = "edit_message_text"
          /\ run'.log[2].arg = "error_nourl"
          /\ run'.wrote = {}
          /\ files' = files
          /\ user_data' = user_data
          /\ hist'.used = hist.used]_vars

\* After a restart the button of an old prompt is pressed: the error shows.
C18_Witness ==
    /\ run.kind = "button"
    /\ run.outcome = "NoUrl"
    /\ user_data.url = NoUrl

\* The kind a declared content type stands for.
DeclaredKind(content_type) ==
    CASE content_type = "audio/mpeg" -> "audio"
      [] content_type = "video/mp4"  -> "video"
      [] OTHER                       -> None

\* C13: the kind of a service artifact is the one of the declared content
\* type when there is one and the format choice otherwise; the extension is
\* .mp3 for audio and .mp4 for video.
C13_KindFromContentType ==
    (run.kind = "extract" /\ run.link > 0) =>
        /\ run.file_type = IF run.content_type # ""
                           THEN DeclaredKind(run.content_type)
                           ELSE run.format
        /\ run.file_type = "audio" => run.path.ext = ".mp3"
        /\ run.file_type = "video" => run.path.ext = ".mp4"

\* The spellings of a word met in the links of Pages.
Spellings ==
    [download |-> {"download", "Download"},
     video    |-> {"video", "Video"},
     audio    |-> {"audio"},
     mp4      |-> {"mp4"},
     hd       |-> {"hd"},
     high     |-> {"high"}]

Has(word, text) == \E i \in DOMAIN text : text[i] \in Spellings[word]

\* Link selection as the claim words it: a media token in the destination,
\* quality links first, the last candidate in document order.
ClaimedCandidates(page) ==
    {j \in DOMAIN page : \E w \in {"download", "video", "mp4"} : Has(w, page[j].href)}

ClaimedPreferred(page) ==
    LET quality == {j \in ClaimedCandidates(page) :
                       \E w \in {"hd", "high"} : Has(w, page[j].href)}
    IN IF quality # {} THEN quality ELSE ClaimedCandidates(page)

\* C14 as claimed: the link selected is the last of the preferred candidates,
\* and the extraction fails exactly when no destination holds a media token.
C14_LinkSelectionAsClaimed ==
    run.kind = "extract" =>
        /\ run.outcome = "DownloadError" <=> ClaimedCandidates(run.page) = {}
        /\ ClaimedCandidates(run.page) # {} =>
              /\ run.link \in ClaimedPreferred(run.page)
              /\ \A j \in ClaimedPreferred(run.page) : j <= run.link

\* The links the search takes: for youtube "download" in the destination and
\* the format choice in the link text, for the other platforms "download" or
\* "video" in the destination, letter case ignored.
Taken(platform, format_choice, page) ==
    {j \in DOMAIN page :
        IF platform = "youtube"
        THEN Has("download", page[j].href) /\ Has(format_choice, page[j].text)
        ELSE Has("download", page[j].href) \/ Has("video", page[j].href)}

\* C14: the link selected is the first one in document order that the search
\* takes, and the extraction fails with a service error exactly when it takes
\* none.
C14_LinkSelection ==
    run.kind = "extract" =>
        LET taken == Taken(run.platform, run.format, run.page)
        IN /\ run.outcome = "DownloadError" <=> taken = {}
           /\ run.link = 0 <=> taken = {}
           /\ taken # {} =>
                 /\ run.link \in taken
                 /\ \A j \in taken : run.link <= j

\* Two links qualify, the second one with a quality token: the first is
\* selected.
C14_Witness ==
    /\ run.kind = "extract"
    /\ run.platform = "tiktok"
    /\ Len(run.page) = 2
    /\ Has("video", run.page[1].href)
    /\ Has("download", run.page[2].href) /\ Has("hd", run.page[2].href)
    /\ run.link = 1

\* C11: the reporter issues no edit after it has observed its cancellation,
\* and the last edit recorded for a request that has ended is a terminal
\* (success or failure) edit of the handler.
C11_ReporterOrdering ==
    /\ run.reporter = "cancelled" =>
          \A i \in DOMAIN run.edits :
              i > run.observed_at => run.edits[i].by # "reporter"
    /\ run.pc = "done" =>
          LET last == run.edits[Len(run.edits)]
          IN /\ last.by = "orchestrator"
             /\ last.text \in {"dl_failed", "too_large", "complete", "send_failed"}

====
